---- MODULE Spec2Model ----
(* Model of src/app.py: the subtitle parser, the filename sanitizer, the     *)
(* per-URL capture session (process_url with its response observer and the   *)
(* two platform interaction drivers) and the batch run (run_all).            *)
(* Text is modelled as a sequence of one-character strings.                  *)
EXTENDS Integers, Sequences, FiniteSets, TLC

(***************************************************************************)
(* Text helpers (Python str semantics)                                     *)
(***************************************************************************)

\* Characters str.strip() and the regex class \s treat as whitespace.
Whitespace == {" ", "\t", "\n", "\r"}

\* Characters str.isdigit() accepts (ASCII part).
Digits == {"0", "1", "2", "3", "4", "5", "6", "7", "8", "9"}

\* needle in hay  (Python substring test)
Contains(hay, needle) ==
  \E k \in 0..(Len(hay) - Len(needle)) :
     \A j \in 1..Len(needle) : hay[k + j] = needle[j]

\* s.strip()
Strip(s) ==
  LET keep == {k \in 1..Len(s) : s[k] \notin Whitespace}
  IN  IF keep = {} THEN <<>>
      ELSE LET lo == CHOOSE k \in keep : \A m \in keep : k <= m
               hi == CHOOSE k \in keep : \A m \in keep : m <= k
           IN  SubSeq(s, lo, hi)

\* s.isdigit(): non-empty and every character a digit
IsDigit(s) == Len(s) > 0 /\ \A k \in 1..Len(s) : s[k] \in Digits

\* s.split('\n'): always at least one (possibly empty) piece
RECURSIVE SplitLines(_)
SplitLines(s) ==
  LET nl == {k \in 1..Len(s) : s[k] = "\n"}
  IN  IF nl = {} THEN <<s>>
      ELSE LET k == CHOOSE x \in nl : \A y \in nl : x <= y
           IN  <<SubSeq(s, 1, k - 1)>> \o SplitLines(SubSeq(s, k + 1, Len(s)))

\* "\n".join(lines)
RECURSIVE JoinLines(_)
JoinLines(lines) ==
  IF Len(lines) = 0 THEN <<>>
  ELSE IF Len(lines) = 1 THEN lines[1]
  ELSE lines[1] \o <<"\n">> \o JoinLines(Tail(lines))

\* re.sub(r'>>\s*', '', line): every ">>" and the whitespace run after it
\* is removed, scanning left to right without overlap.
RECURSIVE SkipWhitespace(_)
SkipWhitespace(s) ==
  IF Len(s) > 0 /\ s[1] \in Whitespace THEN SkipWhitespace(Tail(s)) ELSE s

RECURSIVE StripMarkers(_)
StripMarkers(s) ==
  IF Len(s) = 0 THEN <<>>
  ELSE IF Len(s) >= 2 /\ s[1] = ">" /\ s[2] = ">"
       THEN StripMarkers(SkipWhitespace(SubSeq(s, 3, Len(s))))
       ELSE <<s[1]>> \o StripMarkers(Tail(s))

WEBVTT == <<"W", "E", "B", "V", "T", "T">>
ARROW == <<"-", "-", ">">>

\* The skip test of the loop of parse_vtt.
Skipped(line) ==
  \/ Strip(line) = <<>>
  \/ Contains(line, WEBVTT)
  \/ Contains(line, ARROW)
  \/ IsDigit(Strip(line))

\* The loop of parse_vtt: transcript_lines, given the lines still to read
\* and the lines appended so far (seen_lines is their set).
RECURSIVE TranscriptLines(_, _)
TranscriptLines(lines, acc) ==
  IF Len(lines) = 0 THEN acc
  ELSE LET line == lines[1]
           cleaned_line == Strip(StripMarkers(line))
           seen_lines == {acc[k] : k \in 1..Len(acc)}
       IN  IF Skipped(line) THEN TranscriptLines(Tail(lines), acc)
           ELSE IF cleaned_line # <<>> /\ cleaned_line \notin seen_lines
                THEN TranscriptLines(Tail(lines), Append(acc, cleaned_line))
                ELSE TranscriptLines(Tail(lines), acc)

\* parse_vtt without seen_lines: every cleaned line is appended.
parse_vtt_repeating(vtt_content) ==
  LET lines == SplitLines(Strip(vtt_content))
      kept == SelectSeq(lines, LAMBDA line :
                ~Skipped(line) /\ Strip(StripMarkers(line)) # <<>>)
  IN  JoinLines([k \in 1..Len(kept) |-> Strip(StripMarkers(kept[k]))])

parse_vtt(vtt_content) ==
  JoinLines(TranscriptLines(SplitLines(Strip(vtt_content)), <<>>))

\* The character class of sanitize_filename's pattern.
IllegalChars == {"\\", "/", "*", "?", ":", "\"", "<", ">", "|"}

\* The length sanitize_filename truncates to.
MaxNameLen == 150

Ellipsis == <<".", ".", ".">>

\* sanitize_filename truncating from MaxNameLen characters on.
sanitize_filename_at_limit(name) ==
  LET sanitized == Strip(SelectSeq(name, LAMBDA c : c \notin IllegalChars))
  IN  IF Len(sanitized) >= MaxNameLen
      THEN SubSeq(sanitized, 1, MaxNameLen) \o Ellipsis
      ELSE sanitized

\* sanitize_filename with "|" missing from the character class.
sanitize_filename_keeping_pipe(name) ==
  LET sanitized ==
        Strip(SelectSeq(name, LAMBDA c : c \notin IllegalChars \ {"|"}))
  IN  IF Len(sanitized) > MaxNameLen
      THEN SubSeq(sanitized, 1, MaxNameLen) \o Ellipsis
      ELSE sanitized

sanitize_filename(name) ==
  LET sanitized == Strip(SelectSeq(name, LAMBDA c : c \notin IllegalChars))
  IN  IF Len(sanitized) > MaxNameLen
      THEN SubSeq(sanitized, 1, MaxNameLen) \o Ellipsis
      ELSE sanitized

(***************************************************************************)
(* Bounds and inputs of the session model                                  *)
(***************************************************************************)

\* Number of URLs of the batch (len(urls)).
NumUrls == 2

\* Responses that pass the test of line 79, over the pages of one batch.
MaxResponses == 2

ResponseIds == 1..MaxResponses

GRANICUS ==
  <<"g", "r", "a", "n", "i", "c", "u", "s", ".", "c", "o", "m">>
VIEBIT ==
  <<"v", "i", "e", "b", "i", "t", ".", "c", "o", "m">>
VTT ==
  <<".", "v", "t", "t">>

\* The URLs a batch is drawn from: one per platform and one naming neither.
GranicusUrl ==
  <<"h", "t", "t", "p", "s", ":", "/", "/", "a", ".", "g", "r", "a", "n",
    "i", "c", "u", "s", ".", "c", "o", "m", "/", "p", "?", "x", "=", "1">>
ViebitUrl ==
  <<"h", "t", "t", "p", "s", ":", "/", "/", "b", ".", "v", "i", "e", "b",
    "i", "t", ".", "c", "o", "m", "/", "v">>
OtherUrl ==
  <<"h", "t", "t", "p", "s", ":", "/", "/", "e", "x", "a", "m", "p", "l",
    "e", ".", "c", "o", "m", "/", "v", "i", "d", "e", "o">>
Urls == {GranicusUrl, ViebitUrl, OtherUrl}

\* URL of the k-th subtitle response a page handles, and of any other
\* resource.
ResponseUrl(r) ==
  IF r = 1 THEN
    <<"h", "t", "t", "p", "s", ":", "/", "/", "c", "d", "n", "/", "e", "n",
      ".", "v", "t", "t">>
  ELSE
    <<"h", "t", "t", "p", "s", ":", "/", "/", "c", "d", "n", "/", "e", "s",
      ".", "v", "t", "t", "?", "x">>
OtherResponseUrl ==
  <<"h", "t", "t", "p", "s", ":", "/", "/", "c", "d", "n", "/", "a", "p",
    "p", ".", "j", "s">>

\* Body of the k-th subtitle response (response.text()).
Body(r) ==
  IF r = 1 THEN
    <<"W", "E", "B", "V", "T", "T", "\n", "\n", "1", "\n", "0", ":", "0",
      "0", " ", "-", "-", ">", " ", "0", ":", "0", "2", "\n", ">", ">", " ",
      "G", "o", "o", "d", " ", "d", "a", "y", ".", "\n", "\n", "2", "\n",
      "0", ":", "0", "2", " ", "-", "-", ">", " ", "0", ":", "0", "4", "\n",
      "G", "o", "o", "d", " ", "d", "a", "y", ".", "\n">>
  ELSE
    <<"W", "E", "B", "V", "T", "T", "\n", "\n", "1", "\n", "0", ":", "0",
      "0", " ", "-", "-", ">", " ", "0", ":", "0", "2", "\n", ">", ">", " ",
      "B", "u", "e", "n", "o", "s", " ", "d", "i", "a", "s", ".", "\n">>

\* Page titles page.title() can return.
Titles == {
  <<" ", "C", "o", "u", "n", "c", "i", "l", ":", " ", "1", "/", "2", " ">>,
  <<"B", "u", "d", "g", "e", "t">>}

\* --- values of the Python program ---
None == <<"None">>

UnsupportedPlatform ==
  <<"U", "n", "s", "u", "p", "p", "o", "r", "t", "e", "d", " ", "p", "l",
    "a", "t", "f", "o", "r", "m">>
TimeoutWaiting ==
  <<"T", "i", "m", "e", "o", "u", "t", " ", "w", "a", "i", "t", "i", "n",
    "g", " ", "f", "o", "r", " ", "V", "T", "T", " ", "f", "i", "l", "e">>
ErrorPrefix ==
  <<"E", "r", "r", "o", "r", ":", " ">>
GranicusFailed ==
  <<"G", "r", "a", "n", "i", "c", "u", "s", " ", "i", "n", "t", "e", "r",
    "a", "c", "t", "i", "o", "n", " ", "f", "a", "i", "l", "e", "d", ":",
    " ">>
ViebitFailed ==
  <<"V", "i", "e", "b", "i", "t", " ", "i", "n", "t", "e", "r", "a", "c",
    "t", "i", "o", "n", " ", "f", "a", "i", "l", "e", "d", ":", " ">>
DotTxt ==
  <<".", "t", "x", "t">>

\* Exceptions: the class decides which except clause takes them, the
\* message is str(e).  "PlaywrightTimeoutError" and "PlaywrightError" are
\* playwright.async_api.TimeoutError and Error: both derive from Exception,
\* neither from asyncio.TimeoutError.  An exception is the pair of its
\* class and its message, each a sequence of strings like the values a
\* task returns.
Exc(type, msg) == <<<<type>>, msg>>
ExcType(e) == e[1][1]
ExcMsg(e) == e[2]
MsgTimeout ==
  <<"T", "i", "m", "e", "o", "u", "t", " ", "e", "x", "c", "e", "e", "d",
    "e", "d">>
MsgTarget ==
  <<"T", "a", "r", "g", "e", "t", " ", "c", "l", "o", "s", "e", "d">>
MsgLaunch ==
  <<"E", "x", "e", "c", "u", "t", "a", "b", "l", "e", " ", "m", "i", "s",
    "s", "i", "n", "g">>
MsgDisk ==
  <<"N", "o", " ", "s", "p", "a", "c", "e", " ", "l", "e", "f", "t">>
PlaywrightTimeout == Exc("PlaywrightTimeoutError", MsgTimeout)
LaunchError == Exc("PlaywrightError", MsgLaunch)
TargetClosed == Exc("PlaywrightError", MsgTarget)
DiskError == Exc("OSError", MsgDisk)
AsyncioTimeout == Exc("TimeoutError", <<>>)
CancelledError == Exc("CancelledError", <<>>)

\* except asyncio.TimeoutError
IsAsyncioTimeout(e) == ExcType(e) = "TimeoutError"
\* except Exception  (CancelledError derives from BaseException)
IsException(e) == ExcType(e) # "CancelledError"

(***************************************************************************)
(* State                                                                   *)
(***************************************************************************)

\* Awaited steps of each driver: the awaits of the try block of
\* handle_granicus_url and of handle_viebit_url.
GranicusSteps == 10
ViebitSteps == 8

VARIABLES
  urls,         \* the URL list of the batch
  pc,           \* where each process_url task is suspended
  step,         \* awaits of the driver's try block already completed
  browser,      \* "none", "open" (launched) or "closed" (browser.close() done)
  nav,          \* page.goto: "none", "started", "ok" or "failed"
  driver,       \* interaction driver: "none", "running", "ok" or "failed"
  vtt_future,   \* the pending-result slot of each session
  observed,     \* responses that passed the test of line 79, per session
  readers,      \* handle_response calls suspended in response.text()
  pending,      \* what the try block holds while finally / __aexit__ run
  outcome,      \* how each task finished
  cancelled,    \* tasks asyncio.run has cancelled
  files,        \* the diagnostic files: the session whose markup each holds
  finished,     \* children in the order gather saw them finish
  batch,        \* run_all: "running", "returned" or "raised"
  transcripts,  \* the list run_all returned
  rendered,     \* what the loop over zip(transcripts, urls) rendered
  elapsed,      \* seconds since each task started
  waited,       \* seconds each task has spent suspended in wait_for
  call          \* a direct call of parse_vtt or sanitize_filename

vars == <<urls, pc, step, browser, nav, driver, vtt_future, observed, readers,
          pending, outcome, cancelled, files, finished, batch,
          transcripts, rendered, elapsed, waited, call>>

\* One task per URL (line 130).
Sessions == DOMAIN urls

RECURSIVE Sum(_, _)
Sum(f, S) ==
  IF S = {} THEN 0
  ELSE LET x == CHOOSE y \in S : TRUE IN f[x] + Sum(f, S \ {x})

\* No direct call of the two text functions has been made.
NoCall == [fn |-> "none", arg |-> <<>>, returned |-> FALSE, result |-> <<>>]

DebugFiles == {"debug_granicus.html", "debug_viebit.html"}

NoValue == <<>>
Slot(state, value) == [state |-> state, value |-> value]
Hold(kind, value) == [kind |-> kind, value |-> value]

\* vtt_future.done()
Done(f) == f.state \in {"result", "exception", "cancelled"}

\* The branch of process_url a URL takes (lines 91-96).
Platform(url) ==
  IF Contains(url, GRANICUS) THEN "granicus"
  ELSE IF Contains(url, VIEBIT) THEN "viebit"
  ELSE "unsupported"

NumSteps(url) == IF Platform(url) = "granicus" THEN GranicusSteps ELSE ViebitSteps
DebugFile(url) ==
  IF Platform(url) = "granicus" THEN "debug_granicus.html" ELSE "debug_viebit.html"
InteractionFailed(url, e) ==
  Exc("RuntimeError",
      (IF Platform(url) = "granicus" THEN GranicusFailed ELSE ViebitFailed) \o ExcMsg(e))

\* Handle with the reason of line 107 lacking its "Error: " prefix.
HandleBareMessage(e) ==
  IF IsAsyncioTimeout(e) THEN Hold("return", <<TimeoutWaiting, None>>)
  ELSE IF IsException(e) THEN Hold("return", <<ExcMsg(e), None>>)
  ELSE Hold("raise", e)

\* The except clauses of process_url: what the try block completes with
\* when exception e reaches them.
Handle(e) ==
  IF IsAsyncioTimeout(e) THEN Hold("return", <<TimeoutWaiting, None>>)
  ELSE IF IsException(e) THEN Hold("return", <<ErrorPrefix \o ExcMsg(e), None>>)
  ELSE Hold("raise", e)

Init ==
  /\ urls \in UNION {[1..n -> Urls] : n \in 1..NumUrls}
  /\ pc = [i \in Sessions |-> "start"]
  /\ step = [i \in Sessions |-> 0]
  /\ browser = [i \in Sessions |-> "none"]
  /\ nav = [i \in Sessions |-> "none"]
  /\ driver = [i \in Sessions |-> "none"]
  /\ vtt_future = [i \in Sessions |-> Slot("none", NoValue)]
  /\ observed = [i \in Sessions |-> 0]
  /\ readers = [i \in Sessions |-> {}]
  /\ pending = [i \in Sessions |-> Hold("none", NoValue)]
  /\ outcome = [i \in Sessions |-> Hold("none", NoValue)]
  /\ cancelled = {}
  /\ files = [f \in DebugFiles |-> 0]
  /\ finished = <<>>
  /\ batch = "running"
  /\ transcripts = <<>>
  /\ rendered = <<>>
  /\ elapsed = [i \in Sessions |-> 0]
  /\ waited = [i \in Sessions |-> 0]
  /\ call = NoCall

\* A task takes a step while the loop runs run_all, or, once asyncio.run
\* has cancelled it, to unwind.
CanRun(i) ==
  /\ outcome[i].kind = "none"
  /\ (batch = "running" \/ i \in cancelled)

\* The task of session i is done: gather's callback sees it.
Finish(i, kind, value) ==
  /\ outcome' = [outcome EXCEPT ![i] = Hold(kind, value)]
  /\ pc' = [pc EXCEPT ![i] = "done"]
  /\ finished' = Append(finished, i)

\* The try block of process_url completes with h: the finally clause runs.
ToFinally(i, h) ==
  /\ pending' = [pending EXCEPT ![i] = h]
  /\ pc' = [pc EXCEPT ![i] = "close"]

\* An exception raised before the try block: only the async with unwinds.
ToExit(i, e) ==
  /\ pending' = [pending EXCEPT ![i] = Hold("raise", e)]
  /\ pc' = [pc EXCEPT ![i] = "exit"]

(***************************************************************************)
(* process_url                                                             *)
(***************************************************************************)

\* line 73: async with async_playwright() as p: the playwright driver is
\* started.
EnterPlaywright(i) ==
  /\ CanRun(i) /\ pc[i] = "start"
  /\ pc' = [pc EXCEPT ![i] = "launch"]
  /\ UNCHANGED <<elapsed, waited, call, urls, step, browser, nav, driver,
                 vtt_future, observed, readers, pending, outcome, cancelled,
                 files, finished, batch, transcripts, rendered>>

\* line 74: browser = await p.chromium.launch(...)
Launch(i) ==
  /\ CanRun(i) /\ pc[i] = "launch"
  /\ \/ /\ browser' = [browser EXCEPT ![i] = "open"]
        /\ pc' = [pc EXCEPT ![i] = "new_page"]
        /\ UNCHANGED pending
     \/ /\ ToExit(i, LaunchError)
        /\ UNCHANGED browser
  /\ UNCHANGED <<elapsed, waited, call, urls, step, nav, driver, vtt_future,
                 observed, readers, outcome, cancelled, files, finished,
                 batch, transcripts, rendered>>

\* lines 75-89: new_page returns, the slot is created, the observer is
\* registered and page.goto is called.
NewPage(i) ==
  /\ CanRun(i) /\ pc[i] = "new_page"
  /\ \/ /\ vtt_future' = [vtt_future EXCEPT ![i] = Slot("pending", NoValue)]
        /\ nav' = [nav EXCEPT ![i] = "started"]
        /\ pc' = [pc EXCEPT ![i] = "goto"]
        /\ UNCHANGED pending
     \/ /\ ToExit(i, TargetClosed)
        /\ UNCHANGED <<vtt_future, nav>>
  /\ UNCHANGED <<elapsed, waited, call, urls, step, browser, driver, observed,
                 readers, outcome, cancelled, files, finished, batch,
                 transcripts, rendered>>

\* lines 89-96: page.goto returns or raises; the platform branch.
Goto(i) ==
  /\ CanRun(i) /\ pc[i] = "goto"
  /\ \/ /\ nav' = [nav EXCEPT ![i] = "ok"]
        /\ IF Platform(urls[i]) = "unsupported"
           THEN /\ ToFinally(i, Hold("return", <<UnsupportedPlatform, None>>))
                /\ UNCHANGED driver
           ELSE /\ driver' = [driver EXCEPT ![i] = "running"]
                /\ pc' = [pc EXCEPT ![i] = "driver"]
                /\ UNCHANGED pending
     \/ /\ nav' = [nav EXCEPT ![i] = "failed"]
        /\ ToFinally(i, Handle(PlaywrightTimeout))
        /\ UNCHANGED driver
  /\ UNCHANGED <<elapsed, waited, call, urls, step, browser, vtt_future,
                 observed, readers, outcome, cancelled, files, finished,
                 batch, transcripts, rendered>>

\* One await of the try block of handle_granicus_url / handle_viebit_url
\* (lines 30-43, 52-62); after the last one wait_for is entered (line 98).
\* A failing step enters the except clause, which awaits page.content().
DriverStep(i) ==
  /\ CanRun(i) /\ pc[i] = "driver"
  /\ \/ /\ step' = [step EXCEPT ![i] = @ + 1]
        /\ IF step[i] + 1 = NumSteps(urls[i])
           THEN /\ driver' = [driver EXCEPT ![i] = "ok"]
                /\ pc' = [pc EXCEPT ![i] = "wait"]
           ELSE UNCHANGED <<driver, pc>>
        /\ UNCHANGED pending
     \/ /\ driver' = [driver EXCEPT ![i] = "failed"]
        /\ pending' = [pending EXCEPT ![i] = Hold("caught", PlaywrightTimeout)]
        /\ pc' = [pc EXCEPT ![i] = "dump"]
        /\ UNCHANGED step
  /\ UNCHANGED <<elapsed, waited, call, urls, browser, nav, vtt_future,
                 observed, readers, outcome, cancelled, files, finished,
                 batch, transcripts, rendered>>

\* lines 44-47 / 63-66: page.content() returns, the markup is written and
\* the RuntimeError is raised; or page.content() or the write raises.
DriverDump(i) ==
  /\ CanRun(i) /\ pc[i] = "dump"
  /\ \/ /\ files' = [files EXCEPT ![DebugFile(urls[i])] = i]
        /\ ToFinally(i, Handle(InteractionFailed(urls[i], pending[i].value)))
     \/ /\ ToFinally(i, Handle(DiskError))
        /\ UNCHANGED files
     \/ /\ ToFinally(i, Handle(TargetClosed))
        /\ UNCHANGED files
  /\ UNCHANGED <<elapsed, waited, call, urls, step, browser, nav, driver,
                 vtt_future, observed, readers, outcome, cancelled, finished,
                 batch, transcripts, rendered>>

\* WaitFor that waits for a payload yet to come: one recorded before the
\* call is not seen and the wait times out.
WaitForLaterPayload(i) ==
  /\ CanRun(i) /\ pc[i] = "wait"
  /\ \/ /\ vtt_future[i].state = "result"
        /\ ToFinally(i, Handle(AsyncioTimeout))
        /\ UNCHANGED vtt_future
     \/ /\ vtt_future[i].state = "exception"
        /\ ToFinally(i, Handle(vtt_future[i].value))
        /\ UNCHANGED vtt_future
     \/ /\ vtt_future[i].state = "pending"
        /\ vtt_future' = [vtt_future EXCEPT ![i] = Slot("cancelled", NoValue)]
        /\ ToFinally(i, Handle(AsyncioTimeout))
  /\ UNCHANGED <<elapsed, waited, call, urls, step, browser, nav, driver,
                 observed, readers, outcome, cancelled, files, finished,
                 batch, transcripts, rendered>>

\* line 98: asyncio.wait_for(vtt_future, timeout=30) returns the result,
\* raises the slot's exception, or times out, which cancels the slot.
WaitFor(i) ==
  /\ CanRun(i) /\ pc[i] = "wait"
  /\ \/ /\ vtt_future[i].state = "result"
        /\ pc' = [pc EXCEPT ![i] = "title"]
        /\ UNCHANGED <<pending, vtt_future>>
     \/ /\ vtt_future[i].state = "exception"
        /\ ToFinally(i, Handle(vtt_future[i].value))
        /\ UNCHANGED vtt_future
     \/ /\ vtt_future[i].state = "pending"
        /\ vtt_future' = [vtt_future EXCEPT ![i] = Slot("cancelled", NoValue)]
        /\ ToFinally(i, Handle(AsyncioTimeout))
  /\ UNCHANGED <<elapsed, waited, call, urls, step, browser, nav, driver,
                 observed, readers, outcome, cancelled, files, finished,
                 batch, transcripts, rendered>>

\* lines 99-102: page.title() returns; the transcript and filename are
\* computed and the try block falls through.
Title(i) ==
  /\ CanRun(i) /\ pc[i] = "title"
  /\ \/ \E video_title \in Titles :
           ToFinally(i, Hold("fall", <<parse_vtt(vtt_future[i].value),
                                       sanitize_filename(video_title) \o DotTxt>>))
     \/ ToFinally(i, Handle(TargetClosed))
  /\ UNCHANGED <<elapsed, waited, call, urls, step, browser, nav, driver,
                 vtt_future, observed, readers, outcome, cancelled, files,
                 finished, batch, transcripts, rendered>>

\* lines 108-109: finally: await browser.close().  An exception raised
\* here replaces what the try block completed with.
CloseBrowser(i) ==
  /\ CanRun(i) /\ pc[i] = "close"
  /\ pc' = [pc EXCEPT ![i] = "exit"]
  /\ \/ /\ browser' = [browser EXCEPT ![i] = "closed"]
        /\ UNCHANGED pending
     \/ /\ pending' = [pending EXCEPT ![i] = Hold("raise", TargetClosed)]
        /\ UNCHANGED browser
  /\ UNCHANGED <<elapsed, waited, call, urls, step, nav, driver, vtt_future,
                 observed, readers, outcome, cancelled, files, finished,
                 batch, transcripts, rendered>>

\* The async with block is left (playwright stops); line 111 or the
\* held return or exception ends the task.
ExitPlaywright(i) ==
  /\ CanRun(i) /\ pc[i] = "exit"
  /\ IF pending[i].kind = "raise"
     THEN Finish(i, "raised", pending[i].value)
     ELSE Finish(i, "returned", pending[i].value)
  /\ UNCHANGED <<elapsed, waited, call, urls, step, browser, nav, driver,
                 vtt_future, observed, readers, pending, cancelled, files,
                 batch, transcripts, rendered>>

(***************************************************************************)
(* handle_response, the observer registered by page.on (lines 78-86)       *)
(***************************************************************************)

\* The page receives a response and the observer is called with it: the
\* test of line 79, after which a call that passed suspends in
\* response.text().  A call that fails the test changes nothing.
Response(i) ==
  /\ batch = "running"
  /\ browser[i] = "open" /\ nav[i] # "none" /\ pc[i] # "done"
  /\ Sum(observed, Sessions) < MaxResponses
  /\ \E url \in {ResponseUrl(observed[i] + 1), OtherResponseUrl} :
        IF Contains(url, VTT) /\ ~Done(vtt_future[i])
        THEN /\ observed' = [observed EXCEPT ![i] = @ + 1]
             /\ readers' = [readers EXCEPT ![i] = @ \cup {observed[i] + 1}]
        ELSE UNCHANGED <<observed, readers>>
  /\ UNCHANGED <<elapsed, waited, call, urls, pc, step, browser, nav, driver,
                 vtt_future, pending, outcome, cancelled, files, finished,
                 batch, transcripts, rendered>>

\* Future.set_result / Future.set_exception: a slot that is done raises
\* InvalidStateError and keeps its content.
SetSlot(i, state, value) ==
  IF Done(vtt_future[i])
  THEN UNCHANGED vtt_future
  ELSE vtt_future' = [vtt_future EXCEPT ![i] = Slot(state, value)]

\* lines 82-84: response.text() of call r returns and set_result is called,
\* or it raises and set_exception is called.  An InvalidStateError of
\* set_result is caught by line 83 and raised again by set_exception.
ReadBody(i, r) ==
  /\ batch = "running"
  /\ r \in readers[i]
  /\ readers' = [readers EXCEPT ![i] = @ \ {r}]
  /\ \/ /\ browser[i] = "open"
        /\ SetSlot(i, "result", Body(r))
     \/ SetSlot(i, "exception", TargetClosed)
  /\ UNCHANGED <<elapsed, waited, call, urls, pc, step, browser, nav, driver,
                 observed, pending, outcome, cancelled, files, finished,
                 batch, transcripts, rendered>>

(***************************************************************************)
(* run_all and the loop over its result (lines 129-146)                    *)
(***************************************************************************)

\* GatherResults collecting the results in the order the children finished.
GatherResultsAsCompleted(children, done_order) ==
  [k \in 1..Len(children) |-> outcome[done_order[k]].value]

\* asyncio.gather: the results of the children, in the order of the
\* children, whatever the order they finished in.
GatherResults(children, done_order) ==
  [k \in 1..Len(children) |-> outcome[children[k]].value]

\* zip(transcripts, urls)
Zip(a, b) ==
  [k \in 1..(IF Len(a) < Len(b) THEN Len(a) ELSE Len(b)) |-> <<a[k], b[k]>>]

\* lines 137-146: what is shown for one (transcript, filename), url.
Render(pair) ==
  LET transcript == pair[1][1]
      filename == pair[1][2]
  IN  IF filename # None /\ filename # <<>>
      THEN [url |-> pair[2], shown |-> "download", text |-> transcript,
            file_name |-> filename]
      ELSE [url |-> pair[2], shown |-> "error", text |-> transcript,
            file_name |-> None]

\* Every child returned: gather returns, asyncio.run returns and the
\* results are rendered.
RunAllReturn ==
  /\ batch = "running"
  /\ \A i \in Sessions : outcome[i].kind = "returned"
  /\ batch' = "returned"
  /\ transcripts' = GatherResults([k \in 1..Len(urls) |-> k], finished)
  /\ rendered' = [k \in DOMAIN Zip(transcripts', urls) |->
                    Render(Zip(transcripts', urls)[k])]
  /\ UNCHANGED <<elapsed, waited, call, urls, pc, step, browser, nav, driver,
                 vtt_future, observed, readers, pending, outcome, cancelled,
                 files, finished>>

\* A child raised: gather (return_exceptions is not set) raises it in
\* run_all at once, run_all ends and asyncio.run cancels the tasks left.
RunAllRaise ==
  /\ batch = "running"
  /\ \E i \in Sessions : outcome[i].kind = "raised"
  /\ batch' = "raised"
  /\ UNCHANGED <<elapsed, waited, call, urls, pc, step, browser, nav, driver,
                 vtt_future, observed, readers, pending, outcome, cancelled,
                 files, finished, transcripts, rendered>>

\* The cancellation reaches task i at the await it is suspended in.
\* CancelledError passes the except clauses; inside the try block the
\* finally clause still runs.
CancelTask(i) ==
  /\ batch = "raised"
  /\ outcome[i].kind = "none"
  /\ i \notin cancelled
  /\ cancelled' = cancelled \cup {i}
  /\ CASE pc[i] \in {"start", "exit"} ->
            /\ Finish(i, "raised", CancelledError)
            /\ UNCHANGED <<pending, vtt_future, browser>>
       [] pc[i] \in {"launch", "new_page"} ->
            /\ ToExit(i, CancelledError)
            /\ UNCHANGED <<outcome, finished, vtt_future, browser>>
       [] pc[i] \in {"goto", "driver", "dump", "title"} ->
            /\ ToFinally(i, Hold("raise", CancelledError))
            /\ UNCHANGED <<outcome, finished, vtt_future, browser>>
       [] pc[i] = "wait" ->
            /\ ToFinally(i, Hold("raise", CancelledError))
            /\ vtt_future' = [vtt_future EXCEPT ![i] =
                                IF Done(@) THEN @ ELSE Slot("cancelled", NoValue)]
            /\ UNCHANGED <<outcome, finished, browser>>
       [] pc[i] = "close" ->
            /\ ToExit(i, CancelledError)
            /\ \E b \in {"open", "closed"} : browser' = [browser EXCEPT ![i] = b]
            /\ UNCHANGED <<outcome, finished, vtt_future>>
  /\ UNCHANGED <<elapsed, waited, call, urls, step, nav, driver, observed,
                 readers, files, batch, transcripts, rendered>>

Next ==
  \/ \E i \in Sessions : EnterPlaywright(i)
  \/ \E i \in Sessions : Launch(i)
  \/ \E i \in Sessions : NewPage(i)
  \/ \E i \in Sessions : Goto(i)
  \/ \E i \in Sessions : DriverStep(i)
  \/ \E i \in Sessions : DriverDump(i)
  \/ \E i \in Sessions : WaitFor(i)
  \/ \E i \in Sessions : Title(i)
  \/ \E i \in Sessions : CloseBrowser(i)
  \/ \E i \in Sessions : ExitPlaywright(i)
  \/ \E i \in Sessions : Response(i)
  \/ \E i \in Sessions, r \in ResponseIds : ReadBody(i, r)
  \/ RunAllReturn
  \/ RunAllRaise
  \/ \E i \in Sessions : CancelTask(i)

Spec == Init /\ [][Next]_vars

(***************************************************************************)
(* Properties                                                              *)
(***************************************************************************)

StartsWith(s, prefix) ==
  Len(s) >= Len(prefix) /\ SubSeq(s, 1, Len(prefix)) = prefix

EndsWith(s, suffix) ==
  Len(s) >= Len(suffix) /\ SubSeq(s, Len(s) - Len(suffix) + 1, Len(s)) = suffix

Returned(i) == outcome[i].kind = "returned"
Raised(i) == outcome[i].kind = "raised"

\* C1: the batch run never raises: no process_url task ends by raising and
\* run_all does not end with an exception.
C1_BatchNeverRaises ==
  /\ batch # "raised"
  /\ \A i \in Sessions : ~Raised(i)

\* C2: a failure in one session never cancels another session: no task of
\* the batch is ever cancelled and none ends with CancelledError.
C2_SiblingsNeverCancelled ==
  \A i \in Sessions :
     /\ i \notin cancelled
     /\ Raised(i) => ExcType(outcome[i].value) # "CancelledError"

\* C3: when the batch run returns, the outcome list is as long as the URL
\* list and its i-th entry is the outcome of the task started for the i-th
\* URL, whatever the order the tasks finished in; the rendering pairs it
\* with that URL.
C3_OutcomesInInputOrder ==
  batch = "returned" =>
    /\ Len(transcripts) = Len(urls)
    /\ Len(rendered) = Len(urls)
    /\ \A k \in 1..Len(urls) :
          /\ transcripts[k] = outcome[k].value
          /\ rendered[k].url = urls[k]
          /\ rendered[k].text = outcome[k].value[1]
          /\ transcripts[k][1] = UnsupportedPlatform
               => Platform(urls[k]) = "unsupported"
          /\ Contains(transcripts[k][1], GranicusFailed)
               => Platform(urls[k]) = "granicus"
          /\ Contains(transcripts[k][1], ViebitFailed)
               => Platform(urls[k]) = "viebit"

\* C3 witness: a batch of two returned, the second task finished first and
\* the two outcomes differ.
C3_Witness ==
  /\ batch = "returned"
  /\ Len(urls) = 2
  /\ finished = <<2, 1>>
  /\ outcome[1].value # outcome[2].value

\* C4: no task has finished while the browser it launched is still open.
C4_BrowserClosedWhenDone ==
  \A i \in Sessions : pc[i] = "done" => browser[i] # "open"

\* C5: for a URL naming neither platform no browser is ever launched and
\* no page opened or navigated.
C5_UnsupportedOpensNothing ==
  \A i \in Sessions :
     Platform(urls[i]) = "unsupported" => browser[i] = "none" /\ nav[i] = "none"

\* C6: for a URL naming neither platform every outcome returned is the
\* failure "Unsupported platform", whatever loading the URL did.
C6_UnsupportedAlwaysReported ==
  \A i \in Sessions :
     Platform(urls[i]) = "unsupported" /\ Returned(i)
       => outcome[i].value = <<UnsupportedPlatform, None>>

\* C7: the slot is written at most once: a slot holding a result or an
\* exception keeps it, and a handle_response call that reaches its
\* set_result / set_exception finds the slot not yet set.
C7_SlotWrittenOnce ==
  [][\A i \in Sessions :
       /\ vtt_future[i].state \in {"result", "exception"}
            => vtt_future'[i] = vtt_future[i]
       /\ \A r \in readers[i] :
            r \notin readers'[i] => vtt_future[i].state \notin {"result", "exception"}
    ]_vars

\* C8: the payload recorded in a session is the body of the first matching
\* response the observer saw.
C8_FirstResponseRecorded ==
  \A i \in Sessions :
     vtt_future[i].state = "result" => vtt_future[i].value = Body(1)

\* The deadline of wait_for passed with nothing recorded in the slot: the
\* slot was cancelled by wait_for and not by a cancellation of the task.
DeadlinePassed(i) ==
  vtt_future[i].state = "cancelled" /\ i \notin cancelled

\* C9: a finished session's outcome is "Timeout waiting for VTT file" if
\* and only if navigation succeeded, the driver completed and the payload
\* deadline passed with nothing recorded.
C9_TimeoutIffNoPayload ==
  \A i \in Sessions :
     pc[i] = "done" =>
       ((Returned(i) /\ outcome[i].value = <<TimeoutWaiting, None>>)
          <=> (nav[i] = "ok" /\ driver[i] = "ok" /\ DeadlinePassed(i)))

\* stem is title without the characters of IllegalChars and without
\* surrounding whitespace (titles of the model are shorter than MaxNameLen).
IsCleaned(stem, title) ==
  LET legal == SelectSeq(title, LAMBDA c : c \notin IllegalChars)
  IN  /\ \A k \in 1..Len(stem) : stem[k] \notin IllegalChars
      /\ Len(stem) > 0 => stem[1] \notin Whitespace /\ stem[Len(stem)] \notin Whitespace
      /\ \E a \in 1..(Len(legal) + 1) :
            /\ a + Len(stem) - 1 <= Len(legal)
            /\ SubSeq(legal, a, a + Len(stem) - 1) = stem
            /\ \A k \in 1..Len(legal) :
                  (k < a \/ k > a + Len(stem) - 1) => legal[k] \in Whitespace

SuccessPair(v) ==
  /\ v[2] # None
  /\ EndsWith(v[2], DotTxt)
  /\ \E title \in Titles :
        IsCleaned(SubSeq(v[2], 1, Len(v[2]) - Len(DotTxt)), title)
  /\ \A k \in 1..Len(v[1]) : v[1][k] \in STRING

FailurePair(v) ==
  /\ v[2] = None
  /\ \/ v[1] = UnsupportedPlatform
     \/ v[1] = TimeoutWaiting
     \/ StartsWith(v[1], ErrorPrefix)

\* C10: every value process_url returns is a success pair (transcript,
\* sanitized title + ".txt") or a failure pair (reason, None) whose reason
\* is "Unsupported platform", "Timeout waiting for VTT file" or starts with
\* "Error: ".
C10_OutcomeShapes ==
  \A i \in Sessions :
     Returned(i) => SuccessPair(outcome[i].value) \/ FailurePair(outcome[i].value)

\* C10 witness: one batch in which a task returned a success pair whose
\* title had to be sanitized and another returned an "Error: " failure.
C10_Witness ==
  /\ \E i \in Sessions :
        /\ Returned(i) /\ outcome[i].value[2] # None
        /\ \A title \in Titles : outcome[i].value[2] # title \o DotTxt
  /\ \E i \in Sessions :
        /\ Returned(i) /\ outcome[i].value[2] = None
        /\ StartsWith(outcome[i].value[1], ErrorPrefix)

(***************************************************************************)
(* Direct calls of parse_vtt                                               *)
(***************************************************************************)

\* No batch is running: the session variables of a direct call.
NoBatch ==
  /\ urls = <<>> /\ pc = <<>> /\ step = <<>> /\ browser = <<>>
  /\ nav = <<>> /\ driver = <<>> /\ vtt_future = <<>> /\ observed = <<>>
  /\ readers = <<>> /\ pending = <<>> /\ outcome = <<>>
  /\ cancelled = {} /\ files = [f \in DebugFiles |-> 0]
  /\ finished = <<>> /\ batch = "idle"
  /\ transcripts = <<>> /\ rendered = <<>>
  /\ elapsed = <<>> /\ waited = <<>>

batchVars == <<urls, pc, step, browser, nav, driver, vtt_future, observed,
               readers, pending, outcome, cancelled, files, finished, batch,
               transcripts, rendered, elapsed, waited>>

RECURSIVE Flatten(_)
Flatten(pieces) ==
  IF pieces = <<>> THEN <<>> ELSE Head(pieces) \o Flatten(Tail(pieces))

\* The subtitle texts given to parse_vtt: up to MaxPieces pieces, each a
\* fragment of a WebVTT file (speaker marker, header halves, arrow parts,
\* a digit, a letter, a blank, line ends).
MaxPieces == 4

VttPieces == {
  <<">", ">">>, <<" ">>, <<"-">>, <<">">>, <<"1">>, <<"a">>,
  <<"W", "E", "B">>, <<"V", "T", "T">>, <<"\n">>, <<"a", "\n">> }

VttContents ==
  { Flatten(ps) : ps \in UNION { [1..n -> VttPieces] : n \in 0..MaxPieces } }

Called(fn, arg) ==
  [fn |-> fn, arg |-> arg, returned |-> FALSE, result |-> <<>>]

ParseInit ==
  /\ NoBatch
  /\ \E vtt_content \in VttContents : call = Called("parse_vtt", vtt_content)

\* lines 9-21: parse_vtt(vtt_content) runs and returns.
ParseVtt ==
  /\ call.fn = "parse_vtt" /\ ~call.returned
  /\ call' = [call EXCEPT !.returned = TRUE, !.result = parse_vtt(call.arg)]
  /\ UNCHANGED batchVars

ParseNext == ParseVtt

ParseSpec == ParseInit /\ [][ParseNext]_vars

\* The lines of a text parse_vtt returned (it joins them with "\n"; the
\* empty text has none).
LinesOf(text) == IF text = <<>> THEN <<>> ELSE SplitLines(text)

Parsed == call.fn = "parse_vtt" /\ call.returned

\* C11: no line of the text parse_vtt returns is equal to "WEBVTT", is
\* made of digits only, or contains "-->".
C11_NoHeaderDigitsArrow ==
  Parsed =>
    \A k \in 1..Len(LinesOf(call.result)) :
       LET line == LinesOf(call.result)[k] IN
         /\ line # WEBVTT
         /\ ~IsDigit(line)
         /\ ~Contains(line, ARROW)

\* C12: parse_vtt is idempotent: applied to a text it returned, it returns
\* that text again.
C12_Idempotent ==
  Parsed => parse_vtt(call.result) = call.result

\* The surviving lines of a text, cleaned: the lines the skip test lets
\* through and whose cleaned form is not empty, in the order of the text.
RECURSIVE Surviving(_)
Surviving(lines) ==
  IF lines = <<>> THEN <<>>
  ELSE LET cleaned == Strip(StripMarkers(Head(lines)))
       IN  (IF ~Skipped(Head(lines)) /\ cleaned # <<>>
            THEN <<cleaned>> ELSE <<>>) \o Surviving(Tail(lines))

\* The rank of the k-th line of seq among the distinct lines of seq, each
\* counted where it first occurs.
RankOfFirst(seq, k) ==
  LET first == CHOOSE j \in 1..k :
                 seq[j] = seq[k] /\ \A h \in 1..(j - 1) : seq[h] # seq[k]
  IN  Cardinality({ seq[h] : h \in 1..first })

\* C13: the text parse_vtt returns never has the same line twice, and
\* every cleaned surviving line, however often it occurs, stands in it
\* once, at the rank of its first occurrence among the distinct surviving
\* lines.
C13_FirstOccurrenceKept ==
  Parsed =>
    LET surv == Surviving(SplitLines(Strip(call.arg)))
        out == LinesOf(call.result)
    IN  /\ \A j, k \in 1..Len(out) : j # k => out[j] # out[k]
        /\ Len(out) = Cardinality({ surv[k] : k \in 1..Len(surv) })
        /\ \A k \in 1..Len(surv) : out[RankOfFirst(surv, k)] = surv[k]

\* C13 witness: a returned text of two lines whose input repeated its
\* first surviving line after a different one.
C13_Witness ==
  /\ Parsed
  /\ Len(LinesOf(call.result)) = 2
  /\ LET surv == Surviving(SplitLines(Strip(call.arg)))
     IN  Len(surv) = 3 /\ surv[1] = surv[3] /\ surv[1] # surv[2]

(***************************************************************************)
(* Direct calls of sanitize_filename                                       *)
(***************************************************************************)

\* The names given to sanitize_filename: an optional head, a run of "x"
\* that is empty or brings the name up to the limit of line 25, and a tail
\* of up to MaxTail characters.
MaxTail == 3

NameChars == IllegalChars \cup {"a", " ", "."}

NameHeads == { <<>>, <<" ", "/">> }

NameRuns == { [k \in 1..n |-> "x"] : n \in {0, MaxNameLen - 2, MaxNameLen} }

NameTails == UNION { [1..n -> NameChars] : n \in 0..MaxTail }

Names == { h \o r \o t : h \in NameHeads, r \in NameRuns, t \in NameTails }

SanitizeInit ==
  /\ NoBatch
  /\ \E name \in Names : call = Called("sanitize_filename", name)

\* lines 23-25: sanitize_filename(name) runs and returns.
SanitizeFilename ==
  /\ call.fn = "sanitize_filename" /\ ~call.returned
  /\ call' = [call EXCEPT !.returned = TRUE,
                          !.result = sanitize_filename(call.arg)]
  /\ UNCHANGED batchVars

SanitizeNext == SanitizeFilename

SanitizeSpec == SanitizeInit /\ [][SanitizeNext]_vars

Sanitized == call.fn = "sanitize_filename" /\ call.returned

\* The characters the claims name.
Forbidden == {"\\", "/", "*", "?", ":", "\"", "<", ">", "|"}

\* A name after the forbidden characters are removed and it is trimmed.
CleanedName(name) == Strip(SelectSeq(name, LAMBDA c : c \notin Forbidden))

\* C14 as stated: the result is at most 153 characters long and ends with
\* "..." exactly when the cleaned name was longer than 150 characters.
C14_MarkerIffTruncated ==
  Sanitized =>
    /\ Len(call.result) <= MaxNameLen + Len(Ellipsis)
    /\ EndsWith(call.result, Ellipsis)
         <=> Len(CleanedName(call.arg)) > MaxNameLen

\* C14 amended: the result is at most 153 characters long; when the cleaned
\* name is longer than 150 characters the result is its first 150
\* characters followed by "...", 153 characters in all; otherwise the
\* result is the cleaned name itself, at most 150 characters, which ends
\* with "..." only if the cleaned name does.
C14_TruncatedWithMarker ==
  Sanitized =>
    LET cleaned == CleanedName(call.arg) IN
      /\ Len(call.result) <= MaxNameLen + Len(Ellipsis)
      /\ Len(cleaned) > MaxNameLen =>
           /\ Len(call.result) = MaxNameLen + Len(Ellipsis)
           /\ call.result = SubSeq(cleaned, 1, MaxNameLen) \o Ellipsis
      /\ Len(cleaned) <= MaxNameLen => call.result = cleaned

\* C14 witness: a name that had forbidden characters or blanks to remove,
\* whose cleaned form was still longer than 150 characters and was
\* truncated.
C14_Witness ==
  /\ Sanitized
  /\ Len(CleanedName(call.arg)) > MaxNameLen
  /\ Len(call.arg) > Len(CleanedName(call.arg))
  /\ EndsWith(call.result, Ellipsis)

\* C15: the result of sanitize_filename has none of the characters
\* \ / * ? : " < > | .
C15_NoIllegalChars ==
  Sanitized => \A k \in 1..Len(call.result) : call.result[k] \notin Forbidden

\* C15 witness: a name with a forbidden character whose result is not
\* empty.
C15_Witness ==
  /\ Sanitized
  /\ \E k \in 1..Len(call.arg) : call.arg[k] \in Forbidden
  /\ call.result # <<>>

(***************************************************************************)
(* Properties of a batch, continued                                        *)
(***************************************************************************)

\* C16: no file is written by two sessions of a batch: a diagnostic file
\* that holds the markup of one session is never written by another.
C16_NoSharedFile ==
  [][\A f \in DebugFiles : files[f] # 0 => files'[f] = files[f]]_vars

\* C17: when a driver step has failed, the failure leaves the driver only
\* with the page's markup written to the platform's diagnostic file, as
\* the one interaction-failure error that carries the cause (process_url
\* turns it into "Error: <platform> interaction failed: <cause>"), and
\* with no further step of the driver run.
C17_DumpThenInteractionFailure ==
  [][\A i \in Sessions :
        (pc[i] = "dump" /\ pc'[i] # "dump" /\ i \notin cancelled') =>
          /\ files'[DebugFile(urls[i])] = i
          /\ pending'[i].kind = "return"
          /\ pending'[i].value[1] =
               ErrorPrefix \o ExcMsg(InteractionFailed(urls[i], pending[i].value))
          /\ step'[i] = step[i]]_vars

(***************************************************************************)
(* A batch of one URL with the clock of the event loop                     *)
(***************************************************************************)

\* line 98: timeout=30, in seconds.
PayloadTimeout == 30

\* The clock is followed for MaxElapsed seconds of a task's life.
MaxElapsed == 35

TimedInit == Init /\ Len(urls) = 1

\* Tick with the timer of wait_for started when the task starts.
TickFromStart(i) ==
  /\ batch = "running" /\ pc[i] # "done"
  /\ elapsed[i] < MaxElapsed
  /\ pc[i] = "wait" =>
       vtt_future[i].state = "pending" /\ waited[i] < PayloadTimeout
  /\ elapsed' = [elapsed EXCEPT ![i] = @ + 1]
  /\ waited' = [waited EXCEPT ![i] = @ + 1]
  /\ UNCHANGED <<call, urls, pc, step, browser, nav, driver, vtt_future,
                 observed, readers, pending, outcome, cancelled, files,
                 finished, batch, transcripts, rendered>>

\* One second passes while the task of session i is in flight.  The timer
\* of wait_for (line 98) runs only while the task is suspended in it, and
\* the loop lets no time pass once the slot is done or the timer is due.
Tick(i) ==
  /\ batch = "running" /\ pc[i] # "done"
  /\ elapsed[i] < MaxElapsed
  /\ pc[i] = "wait" =>
       vtt_future[i].state = "pending" /\ waited[i] < PayloadTimeout
  /\ elapsed' = [elapsed EXCEPT ![i] = @ + 1]
  /\ waited' = [waited EXCEPT ![i] = IF pc[i] = "wait" THEN @ + 1 ELSE @]
  /\ UNCHANGED <<call, urls, pc, step, browser, nav, driver, vtt_future,
                 observed, readers, pending, outcome, cancelled, files,
                 finished, batch, transcripts, rendered>>

\* line 98 with the clock: wait_for times out only when its timer is due.
TimedWaitFor(i) ==
  /\ vtt_future[i].state = "pending" => waited[i] >= PayloadTimeout
  /\ WaitFor(i)

\* A batch of one URL has no sibling task for asyncio.run to cancel.
TimedNext ==
  \/ \E i \in Sessions : EnterPlaywright(i)
  \/ \E i \in Sessions : Launch(i)
  \/ \E i \in Sessions : NewPage(i)
  \/ \E i \in Sessions : Goto(i)
  \/ \E i \in Sessions : DriverStep(i)
  \/ \E i \in Sessions : DriverDump(i)
  \/ \E i \in Sessions : TimedWaitFor(i)
  \/ \E i \in Sessions : Title(i)
  \/ \E i \in Sessions : CloseBrowser(i)
  \/ \E i \in Sessions : ExitPlaywright(i)
  \/ \E i \in Sessions : Response(i)
  \/ \E i \in Sessions, r \in ResponseIds : ReadBody(i, r)
  \/ RunAllReturn
  \/ RunAllRaise
  \/ \E i \in Sessions : Tick(i)

TimedSpec == TimedInit /\ [][TimedNext]_vars

\* wait_for timed out in session i (no task is cancelled in a batch of one
\* URL, so only the timeout cancels the slot).
TimedOut(i) == vtt_future[i].state = "cancelled"

FairInit == Init /\ Len(urls) = NumUrls /\ urls[NumUrls] = OtherUrl

\* The steps of task i that are certain to be taken once they can be.
\* The event loop resumes a task whose await has completed, and these
\* awaits complete: goto (line 89), the driver's calls (lines 31-43, 52-62)
\* and wait_for (line 98) end at their timeout at the latest; starting the
\* driver, launching and closing the browser and opening a page are
\* answered by the browser process; a cancelled task is resumed with the
\* CancelledError.  page.content() (lines 45, 64) and page.title()
\* (line 99) take no timeout and are answered by the page itself, which
\* may never answer: DriverDump and Title are not among these steps.
Scheduled(i) ==
  /\ i \in Sessions
  /\ \/ EnterPlaywright(i) \/ Launch(i) \/ NewPage(i) \/ Goto(i)
     \/ DriverStep(i) \/ WaitFor(i) \/ CloseBrowser(i) \/ ExitPlaywright(i)
     \/ CancelTask(i)

Positions ==
  {"start", "launch", "new_page", "goto", "driver", "dump", "wait", "title",
   "close", "exit", "done"}

\* Where task i stands: every step of a task changes it.
position == <<pc, step>>

\* Task i can take one of its scheduled steps: Scheduled(i) is enabled.
Ready(i) ==
  /\ i \in Sessions /\ outcome[i].kind = "none"
  /\ \/ /\ CanRun(i)
        /\ pc[i] \in {"start", "launch", "new_page", "goto", "driver", "wait",
                      "close", "exit"}
     \/ batch = "raised" /\ i \notin cancelled

\* Task i, able to take one of its scheduled steps, moves on.
Resumed(i) ==
  /\ Ready(i)
  /\ \E q \in Positions, n \in {step[i], step[i] + 1} :
        /\ pc' = [pc EXCEPT ![i] = q]
        /\ step' = [step EXCEPT ![i] = n]

\* A task that stays able to take a scheduled step does move on.
Fairness == \A i \in 1..NumUrls : WF_position(Resumed(i))

FairSpec == FairInit /\ [][Next]_vars /\ Fairness

\* C19: under fair scheduling every session eventually finishes, whatever
\* the page and the network do and whatever its siblings do.
C19_EverySessionFinishes ==
  \A i \in 1..NumUrls : <>(i \in Sessions => pc[i] = "done")

\* Navigation and the driver succeeded in session i and a payload is
\* recorded in its slot.
RecordedAfterSuccess(i) ==
  /\ nav[i] = "ok" /\ driver[i] = "ok"
  /\ vtt_future[i].state = "result"

\* C20 as stated: when navigation and the driver both succeeded and a
\* payload was recorded, the value the session returns is Success.
C20_RecordedMeansSuccess ==
  \A i \in Sessions :
     (Returned(i) /\ RecordedAfterSuccess(i)) => outcome[i].value[2] # None

\* C20 amended: the slot exists and the observer is registered before
\* navigation starts; when navigation and the driver both succeeded and a
\* payload was recorded, whenever that happened, the session never holds
\* or returns the timeout failure: the value it returns is Success with
\* the transcript of the recorded payload or, when reading the page title
\* failed, the "Error: " failure of that exception.
C20_RecordedNeverTimeout ==
  \A i \in Sessions :
     /\ nav[i] # "none" => vtt_future[i].state # "none"
     /\ RecordedAfterSuccess(i) =>
          /\ pending[i] # Hold("return", <<TimeoutWaiting, None>>)
          /\ Returned(i) =>
               \/ /\ outcome[i].value[2] # None
                  /\ outcome[i].value[1] = parse_vtt(vtt_future[i].value)
               \/ outcome[i].value = <<ErrorPrefix \o MsgTarget, None>>

\* C20 witness: one session returned Success while, in another, a payload
\* is recorded and navigation or the driver is still running.
C20_Witness ==
  /\ \E i \in Sessions :
        /\ Returned(i) /\ RecordedAfterSuccess(i)
        /\ outcome[i].value[2] # None
  /\ \E j \in Sessions :
        pc[j] \in {"goto", "driver"} /\ vtt_future[j].state = "result"

====
